---- MODULE Spec2Model ----
(***************************************************************************)
(* Model of rpl.py: snapshot / restore engine (RPLSnapshot), the change    *)
(* journal (RPLAutoSave + AutoSaveHandler) and the project registry        *)
(* (RPLManager).                                                           *)
(*                                                                         *)
(* Paths are sequences of tokens.  A token is one character of the path,   *)
(* except that the four characters ".rpl" are kept together as one token,  *)
(* so that Python's substring test  '.rpl' in path  is "some token of the  *)
(* path is .rpl".  No other tokens of the model can spell ".rpl" across a  *)
(* token boundary.                                                         *)
(***************************************************************************)
EXTENDS Integers, Sequences, FiniteSets, TLC

VARIABLES
    projectPath,  \* RPLManager.project_path (absolute, token sequence)
    files,        \* project files outside .rpl : relative path -> content
    dirs,         \* project directories outside .rpl (relative paths)
    unreadable,   \* project files whose bytes cannot be read (stat still works)
    rplDir,       \* does <project>/.rpl exist
    metaDirs,     \* sub-directories of .rpl that exist
    configFile,   \* does .rpl/config.json exist
    backups,      \* .rpl/backups : blob file name -> content
    structFiles,  \* .rpl/snapshots/snapshot_<v>.rpl : version -> pickled structure
    jsonFiles,    \* .rpl/snapshots/snapshot_<v>.json : version -> structure
    pc,           \* "idle" or "scan" (create_snapshot is inside os.walk)
    scan,         \* state of the running scan_project_structure
    autoSave,     \* .rpl/auto_save : blob file name -> content
    changes,      \* .rpl/changes : change file name -> change_data
    clock,        \* datetime.now(), in microseconds
    tracking,     \* RPLManager.tracking
    captured,     \* history: the version scanned last -> project tree when its scan began
    lastOp,       \* history: the operation that produced this state
    watch,        \* auto-save statement by statement: main thread, observer, handler calls
    ops           \* number of operations performed so far

vars == <<projectPath, files, dirs, unreadable, rplDir, metaDirs, configFile,
          backups, structFiles, jsonFiles, pc, scan, autoSave, changes, clock,
          tracking, captured, lastOp, watch, ops>>

fsVars      == <<files, dirs, unreadable>>
metaVars    == <<rplDir, metaDirs, configFile>>
snapVars    == <<backups, structFiles, jsonFiles>>
journalVars == <<autoSave, changes>>

-----------------------------------------------------------------------------
(* Bounds *)

MaxOps == 3          \* operations in a run of Spec and SpecRace
MaxJournalOps == 2   \* operations in a run of SpecJournal
MaxWatchOps == 2     \* events and tree changes in a run of SpecCalls and SpecStop

-----------------------------------------------------------------------------
(* Paths *)

MetaName == ".rpl"
Sep == "/"

\* os.path.join(a, b) for a relative b
Join(a, b) == IF b = <<>> THEN a ELSE a \o <<Sep>> \o b

\* the Python test  '.rpl' in path
ContainsRpl(path) == \E i \in 1..Len(path) : path[i] = MetaName

\* os.path.relpath(full, project_path) for a path below project_path
RelPath(full, base) == SubSeq(full, Len(base) + 2, Len(full))

\* rel_path.replace('/', '_').replace('\\', '_').replace(':', '_')
SafeName(rel) ==
    [i \in 1..Len(rel) |-> IF rel[i] \in {"/", "\\", ":"} THEN "_" ELSE rel[i]]

\* f"{safe_name}.bak"
BackupName(rel) == SafeName(rel) \o <<".bak">>

\* the universe of project entries of the model
DirA    == <<"a">>
FileAB  == <<"a", "/", "b">>
FileA_B == <<"a", "_", "b">>
ProjDirs  == {DirA}
ProjFiles == {FileAB, FileA_B}
RootDir == <<>>
MetaDir == <<MetaName>>
MetaSubNames == {"snapshots", "changes", "auto_save", "backups"}
ConfigPath == <<MetaName, "/", "config.json">>

\* os.path.dirname of a relative path
RECURSIVE LastSep(_, _)
LastSep(p, i) == IF i = 0 THEN 0 ELSE IF p[i] = Sep THEN i ELSE LastSep(p, i - 1)
DirName(p) == LET k == LastSep(p, Len(p)) IN IF k = 0 THEN <<>> ELSE SubSeq(p, 1, k - 1)
BaseName(p) == SubSeq(p, LastSep(p, Len(p)) + 1, Len(p))

\* first segment of a relative path
RECURSIVE FirstSep(_, _)
FirstSep(p, i) == IF i > Len(p) THEN i ELSE IF p[i] = Sep THEN i ELSE FirstSep(p, i + 1)
TopItem(p) == SubSeq(p, 1, FirstSep(p, 1) - 1)

\* some segment of the relative path is exactly ".rpl"
HasMetaSegment(p) ==
    \E i \in 1..Len(p) :
        /\ p[i] = MetaName
        /\ (i = 1 \/ p[i - 1] = Sep)
        /\ (i = Len(p) \/ p[i + 1] = Sep)

\* the path is the metadata directory or lies inside it
InMetaDir(p) == Len(p) >= 1 /\ p[1] = MetaName /\ (Len(p) = 1 \/ p[2] = Sep)

-----------------------------------------------------------------------------
(* Contents *)

Contents == {1, 2}
Size(c) == c                \* content c is c bytes long
Digest(c) == <<"md5", ToString(c)>>   \* hashlib.md5(...).hexdigest()
EmptyHash == <<>>           \* calculate_file_hash returns "" on failure
Null == <<>>                \* None

Versions == {"v1", "v2"}
Corrupt == [corrupt |-> TRUE]   \* a file that pickle.load cannot parse

\* a set as a sequence, in the order the directory listing returns it
RECURSIVE SeqOf(_)
SeqOf(S) == IF S = {} THEN <<>>
            ELSE LET x == CHOOSE y \in S : TRUE IN <<x>> \o SeqOf(S \ {x})

Range(s) == {s[i] : i \in 1..Len(s)}

Restrict(f, S) == [x \in S |-> f[x]]
Put(f, k, v) == [x \in (DOMAIN f) \cup {k} |-> IF x = k THEN v ELSE f[x]]


-----------------------------------------------------------------------------
(* The file system as the program sees it *)

AllMetaDirs == MetaSubNames

\* os.path.join(root, name) for a path relative to the project
RelJoin(d, name) == IF d = <<>> THEN name ELSE d \o <<Sep>> \o name

\* absolute path of a relative one
FullPath(rel) == Join(projectPath, rel)

\* the sub-directories os.walk lists in directory d (relative paths)
SubDirs(d) ==
    {x \in dirs : DirName(x) = d}
      \cup (IF d = RootDir /\ rplDir THEN {MetaDir} ELSE {})
      \cup (IF d = MetaDir /\ rplDir
              THEN {<<MetaName, Sep, m>> : m \in metaDirs} ELSE {})

\* the files os.walk lists in directory d (relative paths)
FilesIn(d) ==
    {f \in DOMAIN files : DirName(f) = d}
      \cup (IF d = MetaDir /\ configFile THEN {ConfigPath} ELSE {})

\* os.path.exists / the bytes of a file
\* the files of the journal, as paths relative to the project: the blob
\* .rpl/auto_save/<safe_name>_<timestamp>.bak (line 272) and the record
\* .rpl/changes/change_<timestamp>.json (line 286)
BlobPath(b) ==
    <<MetaName, Sep, "auto_save", Sep>> \o b[1] \o <<"_", ToString(b[2]), ".bak">>
RecordPath(k) == <<MetaName, Sep, "changes", Sep, "change_", ToString(k), ".json">>
JournalFiles ==
    {BlobPath(b) : b \in DOMAIN autoSave} \cup {RecordPath(k) : k \in DOMAIN changes}

FileExists(rel) ==
    \/ rel \in DOMAIN files
    \/ (rel = ConfigPath /\ configFile)
    \/ (InMetaDir(rel) /\ rel \in JournalFiles)
FileContent(rel) ==
    IF rel \in DOMAIN files THEN files[rel]
    ELSE IF \E b \in DOMAIN autoSave : BlobPath(b) = rel
           THEN autoSave[CHOOSE b \in DOMAIN autoSave : BlobPath(b) = rel]
           ELSE 1
Readable(rel) == FileExists(rel) /\ rel \notin unreadable

\* the directories os.makedirs(path) leaves in place: path and its parents
RECURSIVE WithParents(_)
WithParents(d) == IF d = <<>> THEN {} ELSE {d} \cup WithParents(DirName(d))

-----------------------------------------------------------------------------
(* RPLSnapshot: scan_project_structure, create_snapshot *)

EmptyStructure(v) ==
    [version |-> v, directories |-> <<>>, files |-> <<>>,
     total_size |-> 0, file_count |-> 0]

\* no file is between lines 109 and 119
NoCur == [stage |-> "none"]

NoScan == [version |-> "", walk |-> <<>>, pending |-> <<>>,
           structure |-> EmptyStructure(""),
           seen |-> {}, unread |-> {}, gone |-> {}, cur |-> NoCur]

NoOp == [op |-> "none"]

\* line 92: the directory os.walk yields is skipped
WalkSkips(root) == ContainsRpl(root)

\* line 97: a listed directory name is recorded
DirRecorded(name) == name # <<MetaName>>

\* line 63-64: the name of the blob that holds the file's bytes
BlobName(rel) == BackupName(rel)

\* save_file_content: the blob store after the copy, and what is returned
SaveFileContent(rel) ==
    IF Readable(rel)
      THEN [store |-> Put(backups, BlobName(rel), FileContent(rel)),
            ret |-> BlobName(rel)]
      ELSE [store |-> backups, ret |-> Null]

\* calculate_file_hash
CalculateFileHash(rel) ==
    IF Readable(rel) THEN Digest(FileContent(rel)) ELSE EmptyHash

\* the file loop with  if backup_path:  around lines 111-122
AddFileSkipsUncaptured(st, rel, backup) ==
    IF ~FileExists(rel) \/ backup = Null THEN st
    ELSE LET info == [path |-> rel,
                      size |-> Size(FileContent(rel)),
                      hash |-> CalculateFileHash(rel),
                      backup_file |-> backup]
         IN [st EXCEPT !.files = Put(st.files, rel, info),
                       !.file_count = @ + 1,
                       !.total_size = @ + info.size]

\* lines 111-122: the structure after one more file; os.path.getsize raises
\* for a file that is gone, and the except of line 126 then drops the file
AddFile(st, rel, backup) ==
    IF ~FileExists(rel) THEN st
    ELSE LET info == [path |-> rel,
                      size |-> Size(FileContent(rel)),
                      hash |-> CalculateFileHash(rel),
                      backup_file |-> backup]
         IN [st EXCEPT !.files = Put(st.files, rel, info),
                       !.file_count = @ + 1,
                       !.total_size = @ + info.size]

\* RPLManager.create_snapshot up to the start of os.walk
CreateBegin(v) ==
    /\ pc = "idle"
    /\ ops < MaxOps
    /\ ops' = ops + 1
    /\ IF ~rplDir
         THEN /\ lastOp' = [op |-> "create", v |-> v, ret |-> FALSE,
                            seen |-> {}, unread |-> {}, gone |-> {}]
              /\ UNCHANGED <<pc, scan, metaDirs, captured>>
         ELSE /\ metaDirs' = AllMetaDirs
              /\ pc' = "scan"
              /\ scan' = [version |-> v, walk |-> <<RootDir>>, pending |-> <<>>,
                          structure |-> EmptyStructure(v),
                          seen |-> {}, unread |-> {}, gone |-> {}, cur |-> NoCur]
              /\ captured' = [x \in {v} |-> [files |-> files, dirs |-> dirs,
                                             unreadable |-> unreadable]]
              /\ lastOp' = NoOp
    /\ UNCHANGED <<watch, projectPath, fsVars, rplDir, configFile, snapVars,
                   journalVars, clock, tracking>>

\* os.walk from the directories still to visit: the iterations that line 92
\* skips do nothing but list their sub-directories
RECURSIVE WalkTo(_)
WalkTo(w) ==
    IF w = <<>> THEN <<>>
    ELSE IF WalkSkips(FullPath(Head(w)))
           THEN WalkTo(SeqOf(SubDirs(Head(w))) \o Tail(w))
           ELSE w

\* os.walk up to the next directory whose body runs, and that body up to the
\* file loop (lines 96-100)
WalkDir ==
    /\ pc = "scan"
    /\ scan.pending = <<>>
    /\ scan.walk # <<>>
    /\ LET w == WalkTo(scan.walk)
       IN IF w = <<>>
            THEN scan' = [scan EXCEPT !.walk = <<>>]
            ELSE LET d == Head(w)
                     subs == SeqOf(SubDirs(d))
                     recorded == SelectSeq(subs, LAMBDA x : DirRecorded(BaseName(x)))
                 IN scan' = [scan EXCEPT
                               !.walk = subs \o Tail(w),
                               !.pending = SeqOf(FilesIn(d)),
                               !.seen = @ \cup FilesIn(d),
                               !.structure.directories = @ \o recorded]
    /\ lastOp' = NoOp
    /\ UNCHANGED <<watch, projectPath, fsVars, metaVars, snapVars, pc, journalVars,
                   clock, tracking, captured, ops>>

\* one iteration of  for file_name in files
ScanFile ==
    /\ pc = "scan"
    /\ scan.pending # <<>>
    /\ LET rel == Head(scan.pending)
           saved == SaveFileContent(rel)
       IN /\ backups' = saved.store
          /\ scan' = [scan EXCEPT
                        !.pending = Tail(@),
                        !.structure = AddFile(@, rel, saved.ret),
                        !.unread = IF saved.ret = Null /\ FileExists(rel)
                                     THEN @ \cup {rel} ELSE @,
                        !.gone = IF FileExists(rel) THEN @ ELSE @ \cup {rel}]
    /\ lastOp' = NoOp
    /\ UNCHANGED <<watch, projectPath, fsVars, metaVars, structFiles, jsonFiles, pc,
                   journalVars, clock, tracking, captured, ops>>

\* The iteration of  for file_name in files  statement by statement, for the
\* runs in which other processes write between the statements.

\* line 109: save_file_content
ScanCopy ==
    /\ pc = "scan"
    /\ scan.pending # <<>>
    /\ scan.cur = NoCur
    /\ LET rel == Head(scan.pending)
           saved == SaveFileContent(rel)
       IN /\ backups' = saved.store
          /\ scan' = [scan EXCEPT
                        !.cur = [stage |-> "stat", backup |-> saved.ret],
                        !.unread = IF saved.ret = Null /\ FileExists(rel)
                                     THEN @ \cup {rel} ELSE @]
    /\ lastOp' = NoOp
    /\ UNCHANGED <<watch, projectPath, fsVars, metaVars, structFiles, jsonFiles, pc,
                   journalVars, clock, tracking, captured, ops>>

\* lines 113-114: os.path.getsize, os.path.getmtime; they raise for a file
\* that is gone and line 126 then leaves the file out
ScanStat ==
    /\ pc = "scan"
    /\ scan.cur.stage = "stat"
    /\ LET rel == Head(scan.pending)
       IN scan' = IF FileExists(rel)
                    THEN [scan EXCEPT
                            !.cur = [stage |-> "hash", backup |-> scan.cur.backup,
                                     size |-> Size(FileContent(rel))]]
                    ELSE [scan EXCEPT
                            !.cur = NoCur,
                            !.pending = Tail(@),
                            !.unread = @ \ {rel},
                            !.gone = @ \cup {rel}]
    /\ lastOp' = NoOp
    /\ UNCHANGED <<watch, projectPath, fsVars, metaVars, snapVars, pc, journalVars,
                   clock, tracking, captured, ops>>

\* lines 115-122: calculate_file_hash and the entry of structure['files']
ScanHash ==
    /\ pc = "scan"
    /\ scan.cur.stage = "hash"
    /\ LET rel == Head(scan.pending)
           info == [path |-> rel,
                    size |-> scan.cur.size,
                    hash |-> CalculateFileHash(rel),
                    backup_file |-> scan.cur.backup]
       IN scan' = [scan EXCEPT
                     !.cur = NoCur,
                     !.pending = Tail(@),
                     !.structure.files = Put(@, rel, info),
                     !.structure.file_count = @ + 1,
                     !.structure.total_size = @ + info.size]
    /\ lastOp' = NoOp
    /\ UNCHANGED <<watch, projectPath, fsVars, metaVars, snapVars, pc, journalVars,
                   clock, tracking, captured, ops>>

\* lines 137-153: the two dumps.  fail is the dump the file system refuses
\* ("none", "pickle", "json"); a refused dump leaves a truncated file behind.
CreateFinish(fail) ==
    /\ pc = "scan"
    /\ scan.pending = <<>>
    /\ scan.walk = <<>>
    /\ LET v == scan.version
           st == scan.structure
       IN /\ structFiles' = Put(structFiles, v, IF fail = "pickle" THEN Corrupt ELSE st)
          /\ jsonFiles' = IF fail = "pickle" THEN jsonFiles
                          ELSE Put(jsonFiles, v, IF fail = "json" THEN Corrupt ELSE st)
          /\ lastOp' = [op |-> "create", v |-> v, ret |-> (fail = "none"),
                        seen |-> scan.seen, unread |-> scan.unread,
                        gone |-> scan.gone]
    /\ pc' = "idle"
    /\ scan' = NoScan
    /\ UNCHANGED <<watch, projectPath, fsVars, metaVars, backups, journalVars, clock,
                   tracking, captured, ops>>

-----------------------------------------------------------------------------
(* RPLSnapshot: clean_project, restore_file_content, restore_snapshot *)

\* the entries directly under the project root, the metadata directory apart
TopItems == {TopItem(x) : x \in (DOMAIN files) \cup dirs}

\* line 240: clean_project removes the item
CleanRemoves(item) == item # <<MetaName>>

\* clean_project: what is left of the tree.  stuck are the top-level items
\* whose removal raises (line 247 prints a warning and goes on).
CleanProject(stuck) ==
    LET kept(x) == ~CleanRemoves(TopItem(x)) \/ TopItem(x) \in stuck
    IN [files |-> Restrict(files, {f \in DOMAIN files : kept(f)}),
        dirs |-> {d \in dirs : kept(d)}]

\* restore_file_content: is the file restored
FileRestorable(info) ==
    /\ info.backup_file # Null
    /\ info.backup_file \in DOMAIN backups

\* lines 195, 201, 234, 339: what restore returns when it gives up
NotRestored == FALSE

\* line 230: what restore returns after the file loop
RestoreStatus(success_count, total_files) == success_count = total_files

\* the file loop that gives up at the first file it cannot restore
RestoreTreeStopsAtFailure(st, tree, broken) ==
    LET made == UNION {WithParents(st.directories[i]) : i \in 1..Len(st.directories)}
        found == {f \in DOMAIN st.files : FileRestorable(st.files[f])}
        allOk == \A f \in DOMAIN st.files : f \in found /\ st.files[f].path \notin broken
        okFiles == IF allOk THEN found ELSE {}
        dest == {st.files[f].path : f \in okFiles}
        blobOf(x) == LET f == CHOOSE g \in okFiles : st.files[g].path = x
                     IN backups[st.files[f].backup_file]
    IN [files |-> [x \in (DOMAIN tree.files) \cup dest |->
                      IF x \in dest THEN blobOf(x) ELSE tree.files[x]],
        dirs |-> tree.dirs \cup made,
        restored |-> dest,
        ret |-> RestoreStatus(Cardinality(okFiles), Cardinality(DOMAIN st.files))]

\* lines 210-230 on the cleaned tree: the tree afterwards and the return value.
\* broken are the paths whose shutil.copy2 (line 177) raises; line 174 has made
\* the parent directories by then.
RestoreTree(st, tree, broken) ==
    LET made == UNION {WithParents(st.directories[i]) : i \in 1..Len(st.directories)}
        found == {f \in DOMAIN st.files : FileRestorable(st.files[f])}
        okFiles == {f \in found : st.files[f].path \notin broken}
        parents == UNION {WithParents(DirName(st.files[f].path)) : f \in found}
        dest == {st.files[f].path : f \in okFiles}
        blobOf(x) == LET f == CHOOSE g \in okFiles : st.files[g].path = x
                     IN backups[st.files[f].backup_file]
    IN [files |-> [x \in (DOMAIN tree.files) \cup dest |->
                      IF x \in dest THEN blobOf(x) ELSE tree.files[x]],
        dirs |-> tree.dirs \cup made \cup parents,
        restored |-> dest,
        ret |-> RestoreStatus(Cardinality(okFiles), Cardinality(DOMAIN st.files))]

\* restore_snapshot without the check of the answer (lines 199-201)
RestoreStopsUnconfirmed(v, confirm) ==
    IF v \notin DOMAIN structFiles THEN "missing"
    ELSE IF structFiles[v] = Corrupt THEN "corrupt"
    ELSE ""

\* lines 193-205: what stops restore_snapshot before clean_project
\* ("" when nothing does)
RestoreStops(v, confirm) ==
    IF v \notin DOMAIN structFiles THEN "missing"
    ELSE IF ~confirm THEN "declined"
    ELSE IF structFiles[v] = Corrupt THEN "corrupt"
    ELSE ""

\* RPLManager.restore_snapshot and RPLSnapshot.restore_snapshot
RestoreSnapshot(v, confirm, stuck, broken) ==
    /\ pc = "idle"
    /\ ops < MaxOps
    /\ ops' = ops + 1
    /\ stuck \subseteq TopItems
    /\ (stuck # {} => broken = {})     \* one kind of failure in a restore
    /\ IF ~rplDir
         THEN /\ lastOp' = [op |-> "restore", v |-> v, ret |-> NotRestored,
                            why |-> "uninitialized", stuck |-> {},
                            broken |-> {}]
              /\ UNCHANGED <<fsVars, metaDirs>>
         ELSE /\ metaDirs' = AllMetaDirs
              /\ IF RestoreStops(v, confirm) # ""
                   THEN /\ lastOp' = [op |-> "restore", v |-> v, ret |-> NotRestored,
                                      why |-> RestoreStops(v, confirm), stuck |-> {},
                                      broken |-> {}]
                        /\ UNCHANGED fsVars
                   ELSE LET cleaned == CleanProject(stuck)
                            after == RestoreTree(structFiles[v], cleaned, broken)
                        IN /\ files' = after.files
                           /\ dirs' = after.dirs
                           /\ unreadable' = (unreadable \cap DOMAIN cleaned.files)
                                               \ after.restored
                           /\ lastOp' = [op |-> "restore", v |-> v,
                                         ret |-> after.ret, why |-> "",
                                         stuck |-> stuck \cap TopItems,
                                         broken |-> broken]
    /\ UNCHANGED <<watch, projectPath, rplDir, configFile, snapVars, pc, scan,
                   journalVars, clock, tracking, captured>>

-----------------------------------------------------------------------------
(* RPLManager.init_project *)

InitProject ==
    /\ pc = "idle"
    /\ IF rplDir
         THEN UNCHANGED metaVars
         ELSE /\ rplDir' = TRUE
              /\ metaDirs' = AllMetaDirs
              /\ configFile' = TRUE
    /\ lastOp' = NoOp
    /\ UNCHANGED <<watch, projectPath, fsVars, snapVars, pc, scan, journalVars, clock,
                   tracking, captured, ops>>

-----------------------------------------------------------------------------
(* RPLManager.list_snapshots *)

\* the version labels as token sequences ("snapshot_" and ".rpl" are tokens)
VersionTokens(v) ==
    CASE v = "v1" -> <<"v1">>
      [] v = "v2" -> <<"v2">>
      [] v = "snapshot_v2" -> <<"snapshot_", "v2">>

\* line 45: the name of the durable file of a version
StructureFileName(v) == <<"snapshot_">> \o VersionTokens(v) \o <<MetaName>>

\* line 354: file.replace('snapshot_', '').replace('.rpl', '')
ListedVersion(file) == SelectSeq(file, LAMBDA t : t \notin {"snapshot_", MetaName})

\* line 356: the size of the durable file (grows with what is stored)
StructureFileSize(x) ==
    IF x = Corrupt THEN 1
    ELSE 2 + Cardinality(DOMAIN x.files) + Len(x.directories)

\* lines 353-366: the entry appended for the durable file of version v
ListEntry(v) ==
    LET x == structFiles[v]
    IN [version |-> ListedVersion(StructureFileName(v)),
        size |-> StructureFileSize(x),
        file_count |-> IF x = Corrupt THEN 0 ELSE Cardinality(DOMAIN x.files),
        dir_count |-> IF x = Corrupt THEN 0 ELSE Len(x.directories)]

\* the order of Python strings on the tokens of the labels
TokenOrder == <<MetaName, "snapshot_", "v1", "v2">>
TokenRank(t) == CHOOSE i \in 1..Len(TokenOrder) : TokenOrder[i] = t

RECURSIVE LabelLess(_, _)
LabelLess(a, b) ==
    IF b = <<>> THEN FALSE
    ELSE IF a = <<>> THEN TRUE
    ELSE IF Head(a) = Head(b) THEN LabelLess(Tail(a), Tail(b))
    ELSE TokenRank(Head(a)) < TokenRank(Head(b))

\* line 370: the order of sorted() on the tuples (version, size, files, dirs)
EntryLess(a, b) ==
    \/ LabelLess(a.version, b.version)
    \/ /\ a.version = b.version
       /\ \/ a.size < b.size
          \/ a.size = b.size /\ a.file_count < b.file_count
          \/ a.size = b.size /\ a.file_count = b.file_count
                /\ a.dir_count < b.dir_count

\* what list_snapshots prints, line by line
ListSnapshots ==
    /\ pc = "idle"
    /\ ops < MaxOps
    /\ ops' = ops + 1
    /\ lastOp' = [op |-> "list",
                  out |-> IF "snapshots" \notin metaDirs THEN <<>>
                          ELSE SortSeq(SeqOf({ListEntry(v) : v \in DOMAIN structFiles}),
                                       EntryLess)]
    /\ UNCHANGED <<watch, projectPath, fsVars, metaVars, snapVars, pc, scan,
                   journalVars, clock, tracking, captured>>

-----------------------------------------------------------------------------
(* Other processes acting on the project tree *)

\* a file is written (created or overwritten)
WriteFile(f, c) ==
    /\ ops < MaxOps
    /\ ops' = ops + 1
    /\ DirName(f) \in dirs \cup {<<>>}
    /\ f \notin unreadable
    /\ (IF f \in DOMAIN files THEN files[f] # c ELSE TRUE)
    /\ files' = Put(files, f, c)
    /\ lastOp' = NoOp
    /\ UNCHANGED <<watch, projectPath, dirs, unreadable, metaVars, snapVars, pc, scan,
                   journalVars, clock, tracking, captured>>

\* a file is removed
DeleteFile(f) ==
    /\ ops < MaxOps
    /\ ops' = ops + 1
    /\ f \in DOMAIN files
    /\ files' = Restrict(files, (DOMAIN files) \ {f})
    /\ unreadable' = unreadable \ {f}
    /\ lastOp' = NoOp
    /\ UNCHANGED <<watch, projectPath, dirs, metaVars, snapVars, pc, scan,
                   journalVars, clock, tracking, captured>>

\* a file is renamed
MoveFile(f, g) ==
    /\ ops < MaxOps
    /\ ops' = ops + 1
    /\ f \in DOMAIN files
    /\ g \notin DOMAIN files
    /\ DirName(g) \in dirs \cup {<<>>}
    /\ files' = [x \in ((DOMAIN files) \ {f}) \cup {g} |->
                    IF x = g THEN files[f] ELSE files[x]]
    /\ unreadable' = IF f \in unreadable THEN (unreadable \ {f}) \cup {g}
                     ELSE unreadable
    /\ lastOp' = NoOp
    /\ UNCHANGED <<watch, projectPath, dirs, metaVars, snapVars, pc, scan,
                   journalVars, clock, tracking, captured>>

\* a directory is created
MakeDir(d) ==
    /\ ops < MaxOps
    /\ ops' = ops + 1
    /\ d \notin dirs
    /\ dirs' = dirs \cup {d}
    /\ lastOp' = NoOp
    /\ UNCHANGED <<watch, projectPath, files, unreadable, metaVars, snapVars, pc, scan,
                   journalVars, clock, tracking, captured>>

\* the read permission of a file is withdrawn
Protect(f) ==
    /\ ops < MaxOps
    /\ ops' = ops + 1
    /\ f \in DOMAIN files
    /\ f \notin unreadable
    /\ unreadable' = unreadable \cup {f}
    /\ lastOp' = NoOp
    /\ UNCHANGED <<watch, projectPath, files, dirs, metaVars, snapVars, pc, scan,
                   journalVars, clock, tracking, captured>>

EnvStep ==
    \/ \E f \in ProjFiles, c \in Contents : WriteFile(f, c)
    \/ \E f \in ProjFiles : DeleteFile(f)
    \/ \E f \in ProjFiles, g \in ProjFiles : MoveFile(f, g)
    \/ \E d \in ProjDirs : MakeDir(d)
    \/ \E f \in ProjFiles : Protect(f)

-----------------------------------------------------------------------------
(* RPLAutoSave.save_file_content and the AutoSaveHandler callbacks *)

\* save_file_content without the '.rpl' test of line 264
JournalIgnoresNothing(filepath) == FALSE

\* line 264: the event is dropped before anything is read or written
JournalIgnores(filepath) == ContainsRpl(filepath)

\* line 269: datetime.now().strftime("%Y%m%d_%H%M%S_%f"), one name per microsecond
TimeStamp(t) == t

\* line 272: the journal blob  f"{safe_name}_{timestamp}.bak"
JournalBlob(rel, t) == <<SafeName(rel), TimeStamp(t)>>

\* the record file named from a time stamp without the %f of line 269
ChangeFileBySecond(rel, t) == TimeStamp(t) \div 2

\* line 286: the record file  f"change_{timestamp}.json"
ChangeFile(rel, t) == TimeStamp(t)

\* line 282: the blob reference written into the record
RecordedBlob(rel, t, change_type) ==
    IF change_type # "deleted" THEN JournalBlob(rel, t) ELSE Null

\* save_file_content(filepath, change_type) on the journal j = [autoSave,
\* changes, clock], where clock is the last reading of datetime.now() and wait
\* the time that has passed since.  The readings of lines 269 and 279 fall in
\* the same microsecond.  shutil.copy2 raises for a file that cannot be read,
\* and line 290 then gives the event up.
SaveChange(j, filepath, change_type, wait) ==
    LET rel == RelPath(filepath, projectPath)
        t == j.clock + wait
        copies == FileExists(rel) /\ change_type # "deleted"
        data == [timestamp |-> t,
                 type |-> change_type,
                 file |-> rel,
                 backup_file |-> RecordedBlob(rel, t, change_type),
                 file_size |-> IF FileExists(rel) THEN Size(FileContent(rel)) ELSE 0]
    IN IF JournalIgnores(filepath) \/ ~FileExists(rel) THEN j
       ELSE IF copies /\ ~Readable(rel) THEN j
       ELSE [autoSave |-> IF copies
                            THEN Put(j.autoSave, JournalBlob(rel, t), FileContent(rel))
                            ELSE j.autoSave,
             changes |-> Put(j.changes, ChangeFile(rel, t), data),
             clock |-> t]

\* the change type on_moved passes for the source path (line 410)
MovedSourceType == "moved"

\* the callbacks of AutoSaveHandler, for the event (kind, src, dest); wait2 is
\* the time between the two calls of on_moved
OnEvent(j, kind, src, dest, isDir, wait, wait2) ==
    IF isDir THEN j
    ELSE IF kind = "moved"
      THEN SaveChange(SaveChange(j, FullPath(src), MovedSourceType, wait),
                      FullPath(dest), "created", wait2)
      ELSE SaveChange(j, FullPath(src), kind, wait)

\* the observer thread hands one event to the handler
HandleEvent(kind, src, dest, isDir, wait, wait2) ==
    /\ tracking
    /\ ops < MaxJournalOps
    /\ ops' = ops + 1
    /\ LET j == OnEvent([autoSave |-> autoSave, changes |-> changes,
                         clock |-> clock],
                        kind, src, dest, isDir, wait, wait2)
       IN /\ autoSave' = j.autoSave
          /\ changes' = j.changes
          /\ clock' = j.clock
    /\ lastOp' = IF isDir THEN NoOp
                 ELSE [op |-> "event", kind |-> kind, src |-> src]
    /\ UNCHANGED <<watch, projectPath, fsVars, metaVars, snapVars, pc, scan, tracking,
                   captured>>

\* RPLManager.start_auto_save up to the blocking loop (lines 382-417)
StartAutoSave ==
    /\ pc = "idle"
    /\ IF tracking
         THEN UNCHANGED <<metaVars, tracking>>
         ELSE /\ rplDir' = TRUE
              /\ metaDirs' = metaDirs \cup {"auto_save", "changes"}
              /\ tracking' = TRUE
              /\ UNCHANGED configFile
    /\ lastOp' = NoOp
    /\ UNCHANGED <<watch, projectPath, fsVars, snapVars, pc, scan, journalVars, clock,
                   captured, ops>>

\* RPLManager.stop_auto_save, reached from the KeyboardInterrupt of line 427
StopAutoSave ==
    /\ pc = "idle"
    /\ tracking
    /\ tracking' = FALSE
    /\ lastOp' = NoOp
    /\ UNCHANGED <<watch, projectPath, fsVars, metaVars, snapVars, pc, scan,
                   journalVars, clock, captured, ops>>

EventKinds == {"created", "modified", "deleted", "moved"}
EventPaths == ProjFiles \cup {ConfigPath}

\* the events the observer delivers: for a directory, for a file, for a file
\* that was renamed
WatchStep ==
    \/ \E kind \in EventKinds, d \in ProjDirs :
          HandleEvent(kind, d, d, TRUE, 0, 0)
    \/ \E kind \in EventKinds \ {"moved"}, src \in EventPaths, wait \in {0, 1} :
          HandleEvent(kind, src, src, FALSE, wait, 0)
    \/ \E src \in EventPaths, dest \in EventPaths, wait \in {0, 1}, wait2 \in {0, 1} :
          src # dest /\ HandleEvent("moved", src, dest, FALSE, wait, wait2)

-----------------------------------------------------------------------------
(* Auto-save statement by statement: the threads that run save_file_content,
   and the main thread of start_auto_save / stop_auto_save *)

\* the threads that call save_file_content: the dispatcher thread of this
\* manager's observer, and that of a second  rpl --auto-save  on the project
OwnThread == 1
OtherThread == 2
Handlers == {OwnThread, OtherThread}

\* a thread outside save_file_content
NoCall == [pc |-> "idle", path |-> <<>>, type |-> "", stamp |-> 0, then |-> <<>>]

\* before start_auto_save: no observer (line 297), no stop reported
NoWatch == [main |-> "none", observer |-> "none", told |-> FALSE,
            calls |-> [h \in Handlers |-> NoCall], echoed |-> 0]

\* save_file_content returns: the callback makes its next call (line 411) or ends
Return(c) ==
    IF c.then = <<>> THEN NoCall
    ELSE [pc |-> "check", path |-> Head(c.then)[1], type |-> Head(c.then)[2],
          stamp |-> 0, then |-> Tail(c.then)]

\* a file event reaches a callback of AutoSaveHandler, which calls
\* save_file_content for src and, in on_moved, for dest after it
Deliver(h, kind, src, dest) ==
    /\ IF h = OwnThread THEN watch.observer = "running"
                        ELSE {"auto_save", "changes"} \subseteq metaDirs
    /\ watch.calls[h].pc = "idle"
    /\ ops < MaxWatchOps
    /\ ops' = ops + 1
    /\ watch' = [watch EXCEPT !.calls[h] =
                    [pc |-> "check",
                     path |-> FullPath(src),
                     type |-> IF kind = "moved" THEN MovedSourceType ELSE kind,
                     stamp |-> 0,
                     then |-> IF kind = "moved"
                                THEN << <<FullPath(dest), "created">> >>
                                ELSE <<>>]]
    /\ lastOp' = NoOp
    /\ UNCHANGED <<projectPath, fsVars, metaVars, snapVars, pc, scan, journalVars,
                   clock, tracking, captured>>

\* line 264: the '.rpl' test and the first os.path.exists
CallCheck(h) ==
    LET c == watch.calls[h]
        rel == RelPath(c.path, projectPath)
    IN /\ c.pc = "check"
       /\ watch' = [watch EXCEPT !.calls[h] =
                       IF JournalIgnores(c.path) \/ ~FileExists(rel)
                         THEN Return(c)
                         ELSE [c EXCEPT !.pc = "stamp"]]
       /\ lastOp' = NoOp
       /\ UNCHANGED <<projectPath, fsVars, metaVars, snapVars, pc, scan,
                      journalVars, clock, tracking, captured, ops>>

\* two readings of the clock fall in the same microsecond only when another
\* thread took the first and has not yet left save_file_content: between two
\* readings of one thread lie a copy and the writing of a record
SameInstant(h) ==
    \E g \in Handlers \ {h} :
        /\ watch.calls[g].pc \in {"copy", "record"}
        /\ watch.calls[g].stamp = clock

\* lines 267-272: the clock is read and names the blob and the record file
CallStamp(h, wait) ==
    LET c == watch.calls[h]
    IN /\ c.pc = "stamp"
       /\ wait = 0 => SameInstant(h)
       /\ clock' = clock + wait
       /\ watch' = [watch EXCEPT !.calls[h] =
                       [c EXCEPT !.pc = "copy", !.stamp = clock + wait]]
       /\ lastOp' = NoOp
       /\ UNCHANGED <<projectPath, fsVars, metaVars, snapVars, pc, scan,
                      journalVars, tracking, captured, ops>>

\* lines 274-275: the second os.path.exists and the copy; a file that cannot
\* be read raises, and line 290 gives the event up
CallCopy(h) ==
    LET c == watch.calls[h]
        rel == RelPath(c.path, projectPath)
    IN /\ c.pc = "copy"
       /\ IF FileExists(rel) /\ c.type # "deleted"
            THEN IF Readable(rel)
                   THEN /\ autoSave' = Put(autoSave, JournalBlob(rel, c.stamp),
                                           FileContent(rel))
                        /\ watch' = [watch EXCEPT !.calls[h] =
                                        [c EXCEPT !.pc = "record"]]
                   ELSE /\ watch' = [watch EXCEPT !.calls[h] = Return(c)]
                        /\ UNCHANGED autoSave
            ELSE /\ watch' = [watch EXCEPT !.calls[h] = [c EXCEPT !.pc = "record"]]
                 /\ UNCHANGED autoSave
       /\ lastOp' = NoOp
       /\ UNCHANGED <<projectPath, fsVars, metaVars, snapVars, pc, scan, changes,
                      clock, tracking, captured, ops>>

\* lines 278-288: the record is built and written to change_<timestamp>.json
CallRecord(h) ==
    LET c == watch.calls[h]
        rel == RelPath(c.path, projectPath)
        data == [timestamp |-> clock,
                 type |-> c.type,
                 file |-> rel,
                 backup_file |-> RecordedBlob(rel, c.stamp, c.type),
                 file_size |-> IF FileExists(rel) THEN Size(FileContent(rel)) ELSE 0]
    IN /\ c.pc = "record"
       /\ changes' = Put(changes, ChangeFile(rel, c.stamp), data)
       /\ watch' = [watch EXCEPT !.calls[h] = Return(c)]
       /\ lastOp' = NoOp
       /\ UNCHANGED <<projectPath, fsVars, metaVars, snapVars, pc, scan, autoSave,
                      clock, tracking, captured, ops>>

\* the observer is scheduled on the project root with recursive=True (line
\* 415), so the files save_file_content writes under .rpl raise events of
\* their own, 'created' and then 'modified' for each file, in the order of
\* the writes: by time stamp, the blob (line 275) before the record (line 287)
EchoEvents ==
    {[t |-> b[2], r |-> 0, k |-> k, path |-> BlobPath(b)] :
        b \in DOMAIN autoSave, k \in {0, 1}}
    \cup {[t |-> c, r |-> 1, k |-> k, path |-> RecordPath(c)] :
            c \in DOMAIN changes, k \in {0, 1}}

EchoBefore(x, y) ==
    \/ x.t < y.t
    \/ x.t = y.t /\ x.r < y.r
    \/ x.t = y.t /\ x.r = y.r /\ x.k < y.k

EchoQueue == SortSeq(SeqOf(EchoEvents), EchoBefore)

\* the next event of the journal's own files reaches the callback
Echo ==
    /\ watch.observer = "running"
    /\ watch.calls[OwnThread].pc = "idle"
    /\ watch.echoed < Len(EchoQueue)
    /\ LET e == EchoQueue[watch.echoed + 1]
       IN watch' = [watch EXCEPT
                       !.echoed = @ + 1,
                       !.calls[OwnThread] =
                           [pc |-> "check", path |-> FullPath(e.path),
                            type |-> IF e.k = 0 THEN "created" ELSE "modified",
                            stamp |-> 0, then |-> <<>>]]
    /\ lastOp' = NoOp
    /\ UNCHANGED <<projectPath, fsVars, metaVars, snapVars, pc, scan, journalVars,
                   clock, tracking, captured, ops>>

\* one statement of a thread inside save_file_content
CallStep(h) ==
    \/ CallCheck(h)
    \/ \E wait \in {0, 1} : CallStamp(h, wait)
    \/ CallCopy(h)
    \/ CallRecord(h)

\* start_auto_save up to the loop of line 425 (lines 382-417)
WatchStart ==
    /\ pc = "idle"
    /\ watch.main = "none"
    /\ ~tracking
    /\ rplDir' = TRUE
    /\ metaDirs' = metaDirs \cup {"auto_save", "changes"}
    /\ tracking' = TRUE
    /\ watch' = [watch EXCEPT !.main = "loop", !.observer = "running"]
    /\ lastOp' = NoOp
    /\ UNCHANGED <<projectPath, fsVars, configFile, snapVars, pc, scan,
                   journalVars, clock, captured, ops>>

\* line 427: Ctrl+C reaches the loop of lines 425-426
Interrupt ==
    /\ watch.main = "loop"
    /\ watch' = [watch EXCEPT !.main = "stop"]
    /\ lastOp' = NoOp
    /\ UNCHANGED <<projectPath, fsVars, metaVars, snapVars, pc, scan, journalVars,
                   clock, tracking, captured, ops>>

\* line 435: observer.stop(); the dispatcher takes no further event
ObserverStop ==
    /\ watch.main = "stop"
    /\ watch' = [watch EXCEPT !.main = "join", !.observer = "stopping"]
    /\ lastOp' = NoOp
    /\ UNCHANGED <<projectPath, fsVars, metaVars, snapVars, pc, scan, journalVars,
                   clock, tracking, captured, ops>>

\* line 436: observer.join() returns when the dispatcher thread has ended,
\* which it does after the callback it is running
Joined(w) == w.calls[OwnThread].pc = "idle"

ObserverJoin ==
    /\ watch.main = "join"
    /\ Joined(watch)
    /\ watch' = [watch EXCEPT !.main = "clear", !.observer = "stopped"]
    /\ lastOp' = NoOp
    /\ UNCHANGED <<projectPath, fsVars, metaVars, snapVars, pc, scan, journalVars,
                   clock, tracking, captured, ops>>

\* lines 437-438: the flag is cleared and the stop is reported
ClearTracking ==
    /\ watch.main = "clear"
    /\ tracking' = FALSE
    /\ watch' = [watch EXCEPT !.main = "stopped", !.told = TRUE]
    /\ lastOp' = NoOp
    /\ UNCHANGED <<projectPath, fsVars, metaVars, snapVars, pc, scan, journalVars,
                   clock, captured, ops>>

\* lines 428-430: stop_auto_save has returned and start_auto_save returns
LoopExit ==
    /\ watch.main = "stopped"
    /\ watch' = [watch EXCEPT !.main = "done"]
    /\ lastOp' = NoOp
    /\ UNCHANGED <<projectPath, fsVars, metaVars, snapVars, pc, scan, journalVars,
                   clock, tracking, captured, ops>>

\* rpl --stop : main builds a new RPLManager (line 515), whose observer is
\* None (line 297), and calls stop_auto_save (line 528): lines 435-436 are
\* skipped, the flag of the new manager is cleared and the stop is reported
StopCommand ==
    /\ ~watch.told
    /\ ops < MaxWatchOps
    /\ ops' = ops + 1
    /\ watch' = [watch EXCEPT !.told = TRUE]
    /\ lastOp' = NoOp
    /\ UNCHANGED <<projectPath, fsVars, metaVars, snapVars, pc, scan, journalVars,
                   clock, tracking, captured>>

-----------------------------------------------------------------------------
(* Specifications *)

\* at most one file of a snapshot cannot be written back
BrokenSets == {{}} \cup {{f} : f \in ProjFiles}

\* at most one top-level entry resists removal
StuckSets == {{}} \cup {{TopItem(x)} : x \in ProjDirs \cup ProjFiles}

ProjectPaths == {<<Sep, "p">>, <<Sep, "p", MetaName>>}

\* the project trees of the model: every file has its directory
Trees ==
    {t \in [files : UNION {[S -> Contents] : S \in SUBSET ProjFiles},
            dirs : SUBSET ProjDirs] :
        \A f \in DOMAIN t.files : DirName(f) = <<>> \/ DirName(f) \in t.dirs}

Init ==
    /\ projectPath \in ProjectPaths
    /\ \E t \in Trees : files = t.files /\ dirs = t.dirs
    /\ unreadable = {}
    /\ rplDir = FALSE
    /\ metaDirs = {}
    /\ configFile = FALSE
    /\ backups = <<>>
    /\ structFiles = <<>>
    /\ jsonFiles = <<>>
    /\ pc = "idle"
    /\ scan = NoScan
    /\ autoSave = <<>>
    /\ changes = <<>>
    /\ clock = 0
    /\ tracking = FALSE
    /\ captured = <<>>
    /\ lastOp = NoOp
    /\ watch = NoWatch
    /\ ops = 0

Next ==
    \/ InitProject
    \/ \E v \in Versions : CreateBegin(v)
    \/ WalkDir
    \/ ScanFile
    \/ \E fail \in {"none", "pickle", "json"} : CreateFinish(fail)
    \/ \E v \in Versions, confirm \in BOOLEAN, stuck \in StuckSets,
          broken \in BrokenSets :
          RestoreSnapshot(v, confirm, stuck, broken)
    \/ (pc = "idle" /\ EnvStep)

Spec == Init /\ [][Next]_vars

\* the journal next to snapshot creation and the other processes (the dumps
\* of create_snapshot succeed here; Spec and SpecRace have the failing ones)
NextJournal ==
    \/ InitProject
    \/ (ops < MaxJournalOps /\ \E v \in Versions : CreateBegin(v))
    \/ WalkDir
    \/ ScanFile
    \/ CreateFinish("none")
    \/ StartAutoSave
    \/ StopAutoSave
    \/ (pc = "idle" /\ WatchStep)
    \/ (ops < MaxJournalOps /\ pc = "idle" /\ EnvStep)

SpecJournal == Init /\ [][NextJournal]_vars

\* a scan statement by statement, with other processes writing to the tree
NextScan ==
    \/ InitProject
    \/ \E v \in Versions : CreateBegin(v)
    \/ WalkDir
    \/ ScanCopy
    \/ ScanStat
    \/ ScanHash
    \/ CreateFinish("none")
    \/ EnvStep

SpecScan == Init /\ [][NextScan]_vars

\* snapshots under labels of several shapes, and their listing
ListVersions == {"v1", "v2", "snapshot_v2"}

NextList ==
    \/ InitProject
    \/ \E v \in ListVersions : CreateBegin(v)
    \/ WalkDir
    \/ ScanFile
    \/ \E fail \in {"none", "pickle", "json"} : CreateFinish(fail)
    \/ ListSnapshots

SpecList == Init /\ [][NextList]_vars

\* a scan with other processes writing to the tree meanwhile
NextRace ==
    \/ InitProject
    \/ \E v \in Versions : CreateBegin(v)
    \/ WalkDir
    \/ ScanFile
    \/ \E fail \in {"none", "pickle", "json"} : CreateFinish(fail)
    \/ EnvStep

SpecRace == Init /\ [][NextRace]_vars

\* two threads in save_file_content while the tree changes
NextCalls ==
    \/ WatchStart
    \/ \E h \in Handlers, kind \in EventKinds \ {"moved"}, src \in ProjFiles :
          Deliver(h, kind, src, src)
    \/ \E h \in Handlers, src \in ProjFiles, dest \in ProjFiles :
          src # dest /\ Deliver(h, "moved", src, dest)
    \/ \E h \in Handlers : CallStep(h)
    \/ ops < MaxWatchOps /\ EnvStep

SpecCalls == Init /\ [][NextCalls]_vars

\* auto-save with the events its own writes raise
NextFeed ==
    \/ WatchStart
    \/ \E kind \in EventKinds \ {"moved"}, src \in ProjFiles :
          Deliver(OwnThread, kind, src, src)
    \/ \E src \in ProjFiles, dest \in ProjFiles :
          src # dest /\ Deliver(OwnThread, "moved", src, dest)
    \/ Echo
    \/ CallStep(OwnThread)

\* the dispatcher thread runs: a callback in flight goes on
SpecFeed ==
    /\ Init
    /\ [][NextFeed]_vars
    /\ WF_vars(CallStep(OwnThread))

\* auto-save from start to stop, with rpl --stop run beside it
NextStop ==
    \/ WatchStart
    \/ \E kind \in EventKinds \ {"moved"}, src \in EventPaths :
          Deliver(OwnThread, kind, src, src)
    \/ \E src \in ProjFiles, dest \in ProjFiles :
          src # dest /\ Deliver(OwnThread, "moved", src, dest)
    \/ CallStep(OwnThread)
    \/ Interrupt
    \/ ObserverStop
    \/ ObserverJoin
    \/ ClearTracking
    \/ LoopExit
    \/ StopCommand

\* a thread that can run does run: the callback in flight ends, and the main
\* thread gets through stop_auto_save
SpecStop ==
    /\ Init
    /\ [][NextStop]_vars
    /\ WF_vars(CallStep(OwnThread))
    /\ WF_vars(ObserverStop \/ ObserverJoin \/ ClearTracking \/ LoopExit)


-----------------------------------------------------------------------------
(* Properties of the snapshot / restore engine, checked under Spec *)

\* the snapshot stored for version v can be loaded
Loadable(v) == v \in DOMAIN structFiles /\ structFiles[v] # Corrupt

\* the project lives at a path that does not itself contain ".rpl"
PlainRoot == ~ContainsRpl(projectPath)

\* the last operation was a restore of version v that went past the
\* confirmation and the load
Restored(v) == lastOp.op = "restore" /\ lastOp.v = v /\ lastOp.why = ""

\* C1: round trip.  A snapshot of a tree T (every file readable) that is
\* restored into the emptied project root right away (no other snapshot is
\* taken in between, every entry could be removed) reproduces T: the same
\* files with the same bytes, the same directories, and the fingerprints
\* recorded for the files are those of the restored bytes.
C1_RoundTrip ==
    \A v \in Versions :
        (/\ Restored(v)
         /\ lastOp.stuck = {}
         /\ lastOp.broken = {}
         /\ PlainRoot
         /\ v \in DOMAIN captured
         /\ captured[v].unreadable = {})
        => /\ files = captured[v].files
           /\ dirs = captured[v].dirs
           /\ \A f \in DOMAIN files :
                 /\ f \in DOMAIN structFiles[v].files
                 /\ structFiles[v].files[f].hash = Digest(files[f])

\* no two FileRecords of the structure name the same blob
BlobsApart(st) ==
    \A f, g \in DOMAIN st.files :
        (f # g /\ st.files[f].backup_file # Null)
            => st.files[f].backup_file # st.files[g].backup_file

\* C2: snapshots are immutable.  Between operations, every FileRecord of every
\* stored snapshot that has a blob reference names an existing blob whose
\* digest is the fingerprint recorded at capture time.  (Stated for snapshots
\* whose FileRecords name pairwise different blobs.)
C2_SnapshotsImmutable ==
    pc = "idle" =>
        \A v \in Versions :
            (Loadable(v) /\ BlobsApart(structFiles[v])) =>
                \A f \in DOMAIN structFiles[v].files :
                    LET info == structFiles[v].files[f]
                    IN info.backup_file # Null =>
                          /\ info.backup_file \in DOMAIN backups
                          /\ Digest(backups[info.backup_file]) = info.hash

\* every blob the structure names still holds the bytes it was recorded with
BlobsIntact(st) ==
    \A f \in DOMAIN st.files :
        st.files[f].backup_file # Null =>
            /\ st.files[f].backup_file \in DOMAIN backups
            /\ Digest(backups[st.files[f].backup_file]) = st.files[f].hash

\* C3: a restore that reports full success leaves the project tree identical
\* to the snapshot: the files are exactly the FileRecord paths, the
\* directories exactly the recorded directories, and every file's digest is
\* the recorded fingerprint.  (Stated for a project whose root path does not
\* contain ".rpl" and for snapshots whose blobs are intact.)
C3_SuccessMeansIdentical ==
    \A v \in Versions :
        (Restored(v) /\ lastOp.ret /\ PlainRoot /\ BlobsIntact(structFiles[v])) =>
            /\ DOMAIN files = DOMAIN structFiles[v].files
            /\ dirs = Range(structFiles[v].directories)
            /\ \A f \in DOMAIN files :
                  Digest(files[f]) = structFiles[v].files[f].hash

\* C4: a restore of a version that is missing, or whose confirmation is
\* declined, or whose durable file cannot be parsed, returns False and leaves
\* every file and directory of the working tree as it was.
C4_AbortLeavesTree ==
    [][\A v \in Versions, confirm \in BOOLEAN, stuck \in StuckSets,
          broken \in BrokenSets :
          (/\ (IF v \notin DOMAIN structFiles THEN TRUE
               ELSE ~confirm \/ structFiles[v] = Corrupt)
           /\ RestoreSnapshot(v, confirm, stuck, broken))
          => /\ files' = files
             /\ dirs' = dirs
             /\ lastOp'.ret = FALSE]_vars

\* a restore has just been refused because the durable file is corrupt, with
\* files in the working tree
C4_Witness ==
    /\ lastOp.op = "restore"
    /\ lastOp.why = "corrupt"
    /\ DOMAIN files # {}
    /\ dirs # {}

\* C6: the scan is a full traversal.  After a successful create_snapshot every
\* file and every directory of the project whose relative path has no segment
\* ".rpl" is in the stored snapshot.
C6_FullTraversal ==
    \A v \in Versions :
        (lastOp.op = "create" /\ lastOp.v = v /\ lastOp.ret) =>
            /\ \A f \in DOMAIN files :
                  ~HasMetaSegment(f) => f \in DOMAIN structFiles[v].files
            /\ \A d \in dirs :
                  ~HasMetaSegment(d) => d \in Range(structFiles[v].directories)

\* C5, as claimed: when the capture of exactly one of the N files the walk
\* listed fails (the file is unreadable, or it is gone when the scan reaches
\* it) and both dumps are written, the snapshot has N FileRecords, N-1 with a
\* blob reference and one without, and create_snapshot returns True.
DumpsWritten(v) ==
    /\ Loadable(v)
    /\ v \in DOMAIN jsonFiles
    /\ jsonFiles[v] # Corrupt

WithBlob(st) == {f \in DOMAIN st.files : st.files[f].backup_file # Null}

C5_OneFailureKeepsRecords ==
    \A v \in Versions :
        (/\ lastOp.op = "create"
         /\ lastOp.v = v
         /\ DumpsWritten(v)
         /\ Cardinality(lastOp.unread \cup lastOp.gone) = 1)
        => LET st == structFiles[v]
               N == Cardinality(lastOp.seen)
           IN /\ lastOp.ret
              /\ Cardinality(DOMAIN st.files) = N
              /\ Cardinality(WithBlob(st)) = N - 1
              /\ Cardinality((DOMAIN st.files) \ WithBlob(st)) = 1

\* C5, amended: when the one failure is a file that exists but cannot be read,
\* the snapshot has N FileRecords, N-1 with a blob reference and one without;
\* when it is a file that is gone when the scan reaches it, the snapshot has
\* N-1 FileRecords, all with a blob reference, and none for that file.  In
\* both cases create_snapshot returns True once both dumps are written.
C5_UnreadableKeepsRecord ==
    \A v \in Versions :
        (/\ lastOp.op = "create"
         /\ lastOp.v = v
         /\ DumpsWritten(v)
         /\ Cardinality(lastOp.unread \cup lastOp.gone) = 1)
        => LET st == structFiles[v]
               N == Cardinality(lastOp.seen)
           IN /\ lastOp.ret
              /\ lastOp.unread # {} =>
                    /\ DOMAIN st.files = lastOp.seen
                    /\ Cardinality(DOMAIN st.files) = N
                    /\ (DOMAIN st.files) \ WithBlob(st) = lastOp.unread
                    /\ Cardinality(WithBlob(st)) = N - 1
              /\ lastOp.gone # {} =>
                    /\ DOMAIN st.files = lastOp.seen \ lastOp.gone
                    /\ Cardinality(DOMAIN st.files) = N - 1
                    /\ WithBlob(st) = DOMAIN st.files

\* a snapshot of two files was written, one of them unreadable during the scan
C5_Witness ==
    /\ lastOp.op = "create"
    /\ lastOp.ret
    /\ Cardinality(lastOp.seen) = 2
    /\ Cardinality(lastOp.unread) = 1
    /\ lastOp.gone = {}

-----------------------------------------------------------------------------
(* Properties of the change journal, checked under SpecJournal *)

\* no directory entry and no FileRecord of the structure lies in .rpl
OutsideMeta(st) ==
    /\ \A i \in 1..Len(st.directories) : ~InMetaDir(st.directories[i])
    /\ \A f \in DOMAIN st.files : ~InMetaDir(f) /\ ~InMetaDir(st.files[f].path)

\* C7: metadata exclusion.  No snapshot, stored or being scanned, has a
\* directory entry or a FileRecord inside .rpl; no Change Record is about a
\* path inside .rpl and no journal blob is named from such a path.
C7_MetadataExcluded ==
    /\ \A v \in DOMAIN structFiles :
          structFiles[v] # Corrupt => OutsideMeta(structFiles[v])
    /\ \A v \in DOMAIN jsonFiles :
          jsonFiles[v] # Corrupt => OutsideMeta(jsonFiles[v])
    /\ OutsideMeta(scan.structure)
    /\ \A k \in DOMAIN changes : ~InMetaDir(changes[k].file)
    /\ \A b \in DOMAIN autoSave :
          \A p \in EventPaths : InMetaDir(p) => b[1] # SafeName(p)

\* an event for the existing .rpl/config.json has just been handled, in a
\* project that has a snapshot with a FileRecord
C7_Witness ==
    /\ lastOp.op = "event"
    /\ lastOp.src = ConfigPath
    /\ lastOp.kind \in {"created", "modified"}
    /\ configFile
    /\ PlainRoot
    /\ \E v \in DOMAIN structFiles :
          structFiles[v] # Corrupt /\ DOMAIN structFiles[v].files # {}

\* the event is delivered later than every Change Record was written
Later(t) == \A k \in DOMAIN changes : changes[k].timestamp < t

\* the journal keeps every record and every blob it has
JournalKept ==
    /\ \A k \in DOMAIN changes : k \in DOMAIN changes' /\ changes'[k] = changes[k]
    /\ \A b \in DOMAIN autoSave : b \in DOMAIN autoSave' /\ autoSave'[b] = autoSave[b]

C9_DeletedRecorded ==
    [][\A f \in ProjFiles, wait \in {0, 1} :
          (/\ PlainRoot
           /\ ~FileExists(f)
           /\ Later(clock + wait)
           /\ HandleEvent("deleted", f, f, FALSE, wait, 0))
          => \E k \in (DOMAIN changes') \ (DOMAIN changes) :
                /\ DOMAIN changes' = (DOMAIN changes) \cup {k}
                /\ changes'[k].type = "deleted"
                /\ changes'[k].file = f
                /\ changes'[k].backup_file = Null
                /\ changes'[k].file_size = 0]_vars

\* C10: move semantics.  A moved(A, B) event for a file that went from A to B
\* (A is gone, B is there and readable, the paths without ".rpl") adds exactly
\* two Change Records: first one of type deleted for A with a null blob
\* reference, then one of type created for B whose blob is new and holds B's
\* bytes.
C10_MoveSemantics ==
    [][\A A \in ProjFiles, B \in ProjFiles :
          (/\ A # B
           /\ PlainRoot
           /\ ~FileExists(A)
           /\ Readable(B)
           /\ HandleEvent("moved", A, B, FALSE, 1, 1))
          => \E j, k \in (DOMAIN changes') \ (DOMAIN changes) :
                /\ DOMAIN changes' = (DOMAIN changes) \cup {j, k}
                /\ changes'[j].timestamp < changes'[k].timestamp
                /\ changes'[j].type = "deleted"
                /\ changes'[j].file = A
                /\ changes'[j].backup_file = Null
                /\ changes'[k].type = "created"
                /\ changes'[k].file = B
                /\ changes'[k].backup_file \in (DOMAIN autoSave') \ (DOMAIN autoSave)
                /\ autoSave'[changes'[k].backup_file] = files[B]]_vars

-----------------------------------------------------------------------------
(* Properties of the status and of the file loop of restore, under Spec *)

\* the FileRecords of version v that the last restore did not write back
NotWrittenBack(v) ==
    {f \in DOMAIN structFiles[v].files :
        \/ structFiles[v].files[f].backup_file = Null
        \/ structFiles[v].files[f].backup_file \notin DOMAIN backups
        \/ structFiles[v].files[f].path \in lastOp.broken}

\* C13: the status of a restore tells the three outcomes apart: a restore that
\* cleared the tree and restored every file, one that cleared the tree and
\* did not restore every file, and one that gave up before touching anything
\* never return the same status.
C13_StatusTellsOutcome ==
    \A v \in Versions :
        (lastOp.op = "restore" /\ lastOp.v = v /\ lastOp.why = "") =>
            LET total == Cardinality(DOMAIN structFiles[v].files)
            IN /\ lastOp.ret # NotRestored
               /\ NotWrittenBack(v) # {} => lastOp.ret # RestoreStatus(total, total)

\* C14: per-file independence.  After a restore that went past the load, every
\* FileRecord that could be written back is in the tree with the bytes of its
\* blob, whatever happened to the other FileRecords, and the restore returns
\* True exactly when no FileRecord was left out.
C14_FilesIndependent ==
    \A v \in Versions :
        Restored(v) =>
            /\ \A f \in (DOMAIN structFiles[v].files) \ NotWrittenBack(v) :
                  /\ f \in DOMAIN files
                  /\ files[f] = backups[structFiles[v].files[f].backup_file]
            /\ lastOp.ret = (NotWrittenBack(v) = {})

\* a restore wrote one file back and left another out
C14_Witness ==
    \E v \in Versions :
        /\ Restored(v)
        /\ Cardinality(DOMAIN structFiles[v].files) = 2
        /\ Cardinality(NotWrittenBack(v)) = 1
        /\ ~lastOp.ret

-----------------------------------------------------------------------------
(* Properties of the project registry and of the snapshot repository *)

\* C12: on a project without .rpl, create snapshot, restore and start
\* auto-save give up without changing the file system: .rpl and its content
\* are not created, the tree, the snapshots and the journal stay as they
\* are, and auto-save is not running afterwards.
C12_UninitializedAborts ==
    [][(/\ ~rplDir
        /\ \/ StartAutoSave
           \/ \E v \in Versions : CreateBegin(v)
           \/ \E v \in Versions, confirm \in BOOLEAN : RestoreSnapshot(v, confirm, {}, {}))
       => /\ ~rplDir'
          /\ metaDirs' = metaDirs
          /\ configFile' = configFile
          /\ UNCHANGED <<fsVars, snapVars, journalVars>>
          /\ ~tracking']_vars

\* C16: the two stored forms of a snapshot never diverge.  When create_snapshot
\* ends, the .rpl form and the .json form stored for its version are the same
\* snapshot, and if it returns False the .rpl form of the version is the one
\* that was there before.
C16_FormsAgree ==
    [][\A fail \in {"none", "pickle", "json"} :
          CreateFinish(fail) =>
              LET v == scan.version
              IN /\ v \in DOMAIN structFiles'
                 /\ v \in DOMAIN jsonFiles'
                 /\ structFiles'[v] = jsonFiles'[v]
                 /\ structFiles'[v] # Corrupt
                 /\ ~lastOp'.ret => structFiles' = structFiles]_vars

\* C18: within one snapshot the blob references are injective: two FileRecords
\* with different paths and non-null blob references name different blobs.
C18_BlobsInjective ==
    \A v \in Versions :
        Loadable(v) =>
            \A f, g \in DOMAIN structFiles[v].files :
                (/\ f # g
                 /\ structFiles[v].files[f].backup_file # Null
                 /\ structFiles[v].files[g].backup_file # Null)
                => structFiles[v].files[f].backup_file
                      # structFiles[v].files[g].backup_file

\* C17: list_snapshots yields one entry per stored durable snapshot, each with
\* the label the snapshot was saved under, in the lexicographic order of the
\* labels; a snapshot that cannot be parsed is listed with zero counts, the
\* others with their numbers of files and directories.
C17_ListIsFaithful ==
    lastOp.op = "list" =>
        LET out == lastOp.out
        IN /\ Len(out) = Cardinality(DOMAIN structFiles)
           /\ \A v \in DOMAIN structFiles :
                 \E i \in 1..Len(out) :
                    /\ out[i].version = VersionTokens(v)
                    /\ out[i].file_count =
                          (IF structFiles[v] = Corrupt THEN 0
                           ELSE Cardinality(DOMAIN structFiles[v].files))
                    /\ out[i].dir_count =
                          (IF structFiles[v] = Corrupt THEN 0
                           ELSE Len(structFiles[v].directories))
           /\ \A i, j \in 1..Len(out) :
                 i < j => LabelLess(out[i].version, out[j].version)

\* C19: a FileRecord is self-consistent whatever other processes write during
\* the scan.  When create_snapshot has written a snapshot (whose FileRecords
\* name pairwise different blobs), every FileRecord with a blob reference
\* records the size and the fingerprint of the bytes in its blob.
C19_RecordMatchesBlob ==
    \A v \in Versions :
        (/\ lastOp.op = "create"
         /\ lastOp.v = v
         /\ lastOp.ret
         /\ BlobsApart(structFiles[v]))
        => \A f \in DOMAIN structFiles[v].files :
              LET info == structFiles[v].files[f]
              IN info.backup_file # Null =>
                    /\ info.backup_file \in DOMAIN backups
                    /\ info.size = Size(backups[info.backup_file])
                    /\ info.hash = Digest(backups[info.backup_file])

\* C11: when save_file_content runs concurrently for events on distinct
\* existing paths, whatever the interleaving and the clock readings, the
\* record of one event is never replaced by the record of an event on another
\* path: the journal keeps one Change Record per event.
C11_ConcurrentRecordsKept ==
    [][\A k \in DOMAIN changes :
          \/ changes'[k] = changes[k]
          \/ changes'[k].file = changes[k].file]_vars

\* C20: every Change Record with a blob reference names a blob that is in the
\* auto-save store, also when the file is deleted while its event is being
\* recorded.
C20_NoDanglingReference ==
    \A k \in DOMAIN changes :
        changes[k].backup_file # Null => changes[k].backup_file \in DOMAIN autoSave

\* C15: once stop_auto_save has returned and reported the stop, no watch event
\* is journaled: the auto-save store and the change records stay as they are.
C15_StopQuiesces ==
    [][watch.told => UNCHANGED journalVars]_vars

\* C21: whenever the metadata directory exists, the project config record
\* exists with it.
C21_MarkerHasConfig ==
    rplDir => configFile

\* C22: the events raised by the journal's own writes are ignored: the journal
\* never holds more than two Change Records per external file event, recording
\* leaves the project tree alone, and with no further external event the
\* journal stops growing.
C22_JournalDoesNotFeedItself ==
    /\ [](Cardinality(DOMAIN changes) <= 2 * ops)
    /\ [][CallStep(OwnThread) => UNCHANGED fsVars]_vars
    /\ <>[][UNCHANGED journalVars]_vars

\* a move has left two records, and the events of every file of the journal
\* have been delivered and dropped
C22_Witness ==
    /\ Cardinality(DOMAIN changes) = 2
    /\ ops = 1
    /\ autoSave # <<>>
    /\ watch.echoed = Len(EchoQueue)
    /\ watch.calls[OwnThread].pc = "idle"

====
